---- MODULE Spec2Model ----
(***************************************************************************)
(* The Game REST service: the Express handlers of app.js over the Mongoose *)
(* model of models/gameModel.js.                                           *)
(*                                                                         *)
(* A request is handled in two steps: the handler starts (it reads         *)
(* req.params and req.body, and Mongoose builds the document or the query  *)
(* in the process: the default _id, the casts, the timestamps), and later  *)
(* the one backend command it awaits is executed atomically by the         *)
(* database and the handler sends its response.                            *)
(***************************************************************************)
EXTENDS Integers, Sequences, FiniteSets, TLC

VARIABLES
    db,         \* mongoose.connect: "connecting", "connected", "failed"
    listening,  \* app.listen has been called
    store,      \* the games collection: documents in insertion order
    clock,      \* Date.now() of the process
    issued,     \* the _id values seen so far (ObjectId generation avoids them)
    slot,       \* per in-flight request: the started handler, or Idle
    resp,       \* the last response sent
    handled,    \* number of responses sent
    life,       \* history, per id, from the responses: "never" created,
                \* "live", "deleted", or "reborn" (created again after a delete)
    expected,   \* history: the live records as the responses reported them
    pristine    \* history: id and payload of the records created and not
                \* updated or deleted since

vars == <<db, listening, store, clock, issued, slot, resp, handled,
          life, expected, pristine>>

----------------------------------------------------------------------------
(* Bounds *)

MaxId == 2
MaxClock == 1
MaxOps == 4
MaxInFlight == 2

NonEmptyTexts == {"a", "b"}

----------------------------------------------------------------------------
(* The schema *)

Fields == {"name", "url", "author", "datePublished"}

RequiredMessage ==
    [name |-> "enter the game name",
     url |-> "enter the game url",
     author |-> "enter the game author",
     datePublished |-> "enter the date published"]

\* An id string that does not cast to an ObjectId (GET /games/abc).
BadId == 0
\* The well-formed ids.
ValidIds == 1 .. MaxId
\* A createdAt a client sends in the body: later than every clock reading.
ClientDate == MaxClock + 1

\* req.body restricted to the four schema paths is a function from the keys
\* present to their text. Its _id and createdAt, when present, are kept beside
\* it (bodyId, bodyCreatedAt). Keys outside the schema are dropped by the
\* schema's strict mode, and an updatedAt is overwritten by the timestamps.
Full(t) == [f \in Fields |-> t]
Without(g) == [f \in Fields \ {g} |-> "a"]
Only(g, t) == [f \in {g} |-> t]
Empty == [f \in {} |-> ""]

\* The bodies posted: complete ones, ones with a path missing, a path
\* empty, or both, and the empty body.
CreateBodies ==
    { Full(t) : t \in NonEmptyTexts }
      \cup { Without("name"), [Full("a") EXCEPT !.url = ""] }
      \cup { [Without("datePublished") EXCEPT !.author = ""], Empty }

\* The bodies put: one path set or blanked, two paths, none.
UpdateBodies ==
    { Only("name", "b"), Only("author", ""), Empty,
      [f \in {"url", "datePublished"} |-> "b"] }

\* A handler's locals: the route, req.params.id, req.body (its schema paths,
\* its _id and its createdAt when present), the clock reading and the _id of
\* the document built, and `game`, the awaited result.
Idle ==
    [op |-> "idle", id |-> BadId, body |-> Empty, bodyId |-> {},
     bodyCreatedAt |-> {}, now |-> 0, newId |-> BadId, game |-> {}]

NoResp == [op |-> "none", id |-> BadId, status |-> 0, out |-> {}]

----------------------------------------------------------------------------
(* Mongoose, in the process *)

\* A validator that only asks whether the path is set.
MissingFieldsUnset(body) ==
    { f \in Fields : f \notin DOMAIN body }

\* The String `required` validator: the path is set and its length is not 0.
MissingFields(body) ==
    { f \in Fields : f \notin DOMAIN body \/ body[f] = "" }

\* Document validation of game.save(): one message per failing path.
ValidationMessages(req) ==
    { RequiredMessage[f] : f \in MissingFields(req.body) }
      \cup (IF BadId \in req.bodyId THEN {"Cast to ObjectId failed"} ELSE {})

\* new Game(req.body) and the timestamps hook of save(): _id is the body's
\* or a generated one, createdAt is the body's or now, updatedAt is createdAt.
NewGame(req) ==
    LET created == IF req.bodyCreatedAt = {} THEN req.now
                   ELSE CHOOSE t \in req.bodyCreatedAt : TRUE
    IN [_id |-> req.newId,
        name |-> req.body.name,
        url |-> req.body.url,
        author |-> req.body.author,
        datePublished |-> req.body.datePublished,
        createdAt |-> created,
        updatedAt |-> created]

\* An update that replaces the document: the paths not in the body are blanked.
ApplyUpdateReplace(doc, req) ==
    [k \in DOMAIN doc |->
        IF k \in DOMAIN req.body THEN req.body[k]
        ELSE IF k \in Fields THEN ""
        ELSE IF k = "updatedAt" THEN req.now
        ELSE doc[k]]

\* The update document Mongoose sends for findByIdAndUpdate(id, req.body):
\* the schema paths of the body, updatedAt set to now, createdAt dropped.
ApplyUpdate(doc, req) ==
    [k \in DOMAIN doc |->
        IF k \in DOMAIN req.body THEN req.body[k]
        ELSE IF k = "updatedAt" THEN req.now
        ELSE doc[k]]

----------------------------------------------------------------------------
(* The database: each command is atomic *)

Matches(st, id) == { i \in 1 .. Len(st) : st[i]._id = id }

First(S) == CHOOSE i \in S : \A j \in S : i <= j

\* findOne({}): the first document, whatever its _id.
FindByIdFirst(st, id) ==
    IF st = <<>> THEN {} ELSE { st[1] }

\* findOne({_id: id}): the document, or none.
FindById(st, id) ==
    IF Matches(st, id) = {} THEN {} ELSE { st[First(Matches(st, id))] }

\* insertOne under the unique index on _id.
InsertOne(st, doc) ==
    IF Matches(st, doc._id) # {}
    THEN [ok |-> FALSE, store |-> st]
    ELSE [ok |-> TRUE, store |-> Append(st, doc)]

\* findOneAndUpdate({_id: id}, {$set: ...}, {new: true}): a $set of _id to
\* another value is refused by the server.
FindOneAndUpdate(st, req) ==
    LET m == Matches(st, req.id) IN
    IF m = {} THEN [ok |-> TRUE, store |-> st, game |-> {}]
    ELSE LET i == First(m) IN
         IF req.bodyId # {} /\ req.bodyId # {st[i]._id}
         THEN [ok |-> FALSE, store |-> st, game |-> {}]
         ELSE LET d == ApplyUpdate(st[i], req) IN
              [ok |-> TRUE, store |-> [st EXCEPT ![i] = d], game |-> {d}]

\* findOne({_id: id}): returns the document and leaves it in place.
FindOneAndDeleteKeep(st, id) ==
    LET m == Matches(st, id) IN
    IF m = {} THEN [store |-> st, game |-> {}]
    ELSE [store |-> st, game |-> {st[First(m)]}]

\* findOneAndDelete({_id: id}): removes the document and returns it.
FindOneAndDelete(st, id) ==
    LET m == Matches(st, id) IN
    IF m = {} THEN [store |-> st, game |-> {}]
    ELSE LET i == First(m) IN
         [store |-> SubSeq(st, 1, i - 1) \o SubSeq(st, i + 1, Len(st)),
          game |-> {st[i]}]

----------------------------------------------------------------------------
(* Responses *)

Json(req, status, out) ==
    [op |-> req.op, id |-> req.id, status |-> status, out |-> out]

NotFound(req) ==
    Json(req, 404, [message |-> "Cannot find the game with id", id |-> req.id])

ServerError(req, kind, messages) ==
    Json(req, 500, [message |-> kind, detail |-> messages])

TheGame(game) == CHOOSE d \in game : TRUE

\* The history, as a client reading the responses keeps it.
Observe(req, r) ==
    /\ life' =
         IF r.status = 200 /\ r.op = "create"
         THEN [life EXCEPT ![r.out._id] =
                  IF @ \in {"deleted", "reborn"} THEN "reborn" ELSE "live"]
         ELSE IF r.status = 200 /\ r.op = "delete"
         THEN [life EXCEPT ![r.out._id] = "deleted"]
         ELSE life
    /\ expected' =
         IF r.status = 200 /\ r.op \in {"create", "update"}
         THEN { d \in expected : d._id # r.out._id } \cup {r.out}
         ELSE IF r.status = 200 /\ r.op = "delete"
         THEN { d \in expected : d._id # r.out._id }
         ELSE expected
    /\ pristine' =
         IF r.status = 200 /\ r.op = "create"
         THEN pristine \cup {[id |-> r.out._id, body |-> req.body]}
         ELSE IF r.status = 200 /\ r.op \in {"update", "delete"}
         THEN { p \in pristine : p.id # r.out._id }
         ELSE pristine

\* res.status(...).json(...): the handler ends.
Reply(r, response) ==
    /\ resp' = response
    /\ slot' = [slot EXCEPT ![r] = Idle]
    /\ handled' = handled + 1
    /\ Observe(slot[r], response)
    /\ UNCHANGED <<db, listening, clock, issued>>

----------------------------------------------------------------------------
(* Startup *)

Init ==
    /\ db = "connecting"
    /\ listening = FALSE
    /\ store = <<>>
    /\ clock = 0
    /\ issued = {}
    /\ slot = [r \in 1 .. MaxInFlight |-> Idle]
    /\ resp = NoResp
    /\ handled = 0
    /\ life = [i \in ValidIds |-> "never"]
    /\ expected = {}
    /\ pristine = {}

\* mongoose.connect(...) resolves.
ConnectOk ==
    /\ db = "connecting"
    /\ db' = "connected"
    /\ UNCHANGED <<listening, store, clock, issued, slot, resp, handled,
                   life, expected, pristine>>

\* mongoose.connect(...) rejects: the .catch logs the error.
ConnectFail ==
    /\ db = "connecting"
    /\ db' = "failed"
    /\ UNCHANGED <<listening, store, clock, issued, slot, resp, handled,
                   life, expected, pristine>>

\* app.listen called beside the connect instead of in its .then.
CanListenAnyway == TRUE

\* app.listen is called in the .then of the connect, and nowhere else.
CanListen == db = "connected"

Listen ==
    /\ CanListen
    /\ ~listening
    /\ listening' = TRUE
    /\ UNCHANGED <<db, store, clock, issued, slot, resp, handled,
                   life, expected, pristine>>

\* Time passes.
Tick ==
    /\ clock < MaxClock
    /\ clock' = clock + 1
    /\ UNCHANGED <<db, listening, store, issued, slot, resp, handled,
                   life, expected, pristine>>

----------------------------------------------------------------------------
(* The handlers *)

InFlight == { r \in DOMAIN slot : slot[r].op # "idle" }

\* A request is dispatched only by a listening server.
Accepts(r) ==
    /\ listening
    /\ slot[r].op = "idle"
    /\ handled + Cardinality(InFlight) < MaxOps

Begin(r, req) ==
    /\ slot' = [slot EXCEPT ![r] = req]
    /\ UNCHANGED <<db, listening, store, clock, resp, handled,
                   life, expected, pristine>>

\* POST /game: new Game(req.body), then save() validates, stamps and inserts.
\* The generated _id of a document that fails validation is never stored or
\* sent, and is not drawn from the ids.
StartCreate(r, body, bodyId, bodyCreatedAt) ==
    /\ Accepts(r)
    /\ bodyId # {} \/ MissingFields(body) # {} \/ ValidIds \ issued # {}
    /\ LET id == IF bodyId # {} THEN CHOOSE i \in bodyId : TRUE
                 ELSE IF MissingFields(body) # {} THEN BadId
                 ELSE First(ValidIds \ issued)
       IN /\ issued' = issued \cup ({id} \cap ValidIds)
          /\ Begin(r, [Idle EXCEPT !.op = "create", !.body = body,
                                   !.bodyId = bodyId,
                                   !.bodyCreatedAt = bodyCreatedAt,
                                   !.now = clock, !.newId = id])

CompleteCreate(r) ==
    /\ slot[r].op = "create"
    /\ LET req == slot[r] IN
       IF ValidationMessages(req) # {}
       THEN /\ store' = store
            /\ Reply(r, ServerError(req, "Game validation failed",
                                    ValidationMessages(req)))
       ELSE LET game == NewGame(req)
                ins == InsertOne(store, game)
            IN /\ store' = ins.store
               /\ IF ins.ok
                  THEN Reply(r, Json(req, 200, game))
                  ELSE Reply(r, ServerError(req, "E11000 duplicate key", {}))

\* GET /games
StartList(r) ==
    /\ Accepts(r)
    /\ issued' = issued
    /\ Begin(r, [Idle EXCEPT !.op = "list"])

CompleteList(r) ==
    /\ slot[r].op = "list"
    /\ store' = store
    /\ Reply(r, Json(slot[r], 200, store))

\* GET /games/:id
StartGet(r, id) ==
    /\ Accepts(r)
    /\ issued' = issued
    /\ Begin(r, [Idle EXCEPT !.op = "get", !.id = id])

CompleteGet(r) ==
    /\ slot[r].op = "get"
    /\ store' = store
    /\ LET req == slot[r] IN
       IF req.id = BadId
       THEN Reply(r, ServerError(req, "Cast to ObjectId failed", {}))
       ELSE LET game == FindById(store, req.id) IN
            IF game = {} THEN Reply(r, NotFound(req))
            ELSE Reply(r, Json(req, 200, TheGame(game)))

\* PUT /games/:id
StartUpdate(r, id, body, bodyId) ==
    /\ Accepts(r)
    /\ issued' = issued
    /\ Begin(r, [Idle EXCEPT !.op = "update", !.id = id, !.body = body,
                             !.bodyId = bodyId, !.now = clock])

CompleteUpdate(r) ==
    /\ slot[r].op = "update"
    /\ LET req == slot[r] IN
       IF req.id = BadId \/ BadId \in req.bodyId
       THEN /\ store' = store
            /\ Reply(r, ServerError(req, "Cast to ObjectId failed", {}))
       ELSE LET upd == FindOneAndUpdate(store, req) IN
            /\ store' = upd.store
            /\ IF ~upd.ok
               THEN Reply(r, ServerError(req, "immutable field _id", {}))
               ELSE IF upd.game = {} THEN Reply(r, NotFound(req))
               ELSE Reply(r, Json(req, 200, TheGame(upd.game)))

\* A delete in two commands, findById and then deleteOne, with other
\* requests running in between.
CompleteDeleteTorn(r) ==
    /\ slot[r].op = "delete"
    /\ LET req == slot[r] IN
       IF req.id = BadId
       THEN /\ store' = store
            /\ Reply(r, ServerError(req, "Cast to ObjectId failed", {}))
       ELSE IF req.game = {}
       THEN LET game == FindById(store, req.id) IN
            /\ store' = store
            /\ IF game = {} THEN Reply(r, NotFound(req))
               ELSE /\ slot' = [slot EXCEPT ![r].game = game]
                    /\ UNCHANGED <<db, listening, clock, issued, resp, handled,
                                   life, expected, pristine>>
       ELSE /\ store' = FindOneAndDelete(store, req.id).store
            /\ Reply(r, Json(req, 200, TheGame(req.game)))

\* DELETE /games/:id
StartDelete(r, id) ==
    /\ Accepts(r)
    /\ issued' = issued
    /\ Begin(r, [Idle EXCEPT !.op = "delete", !.id = id])

CompleteDelete(r) ==
    /\ slot[r].op = "delete"
    /\ LET req == slot[r] IN
       IF req.id = BadId
       THEN /\ store' = store
            /\ Reply(r, ServerError(req, "Cast to ObjectId failed", {}))
       ELSE LET del == FindOneAndDelete(store, req.id) IN
            /\ store' = del.store
            /\ IF del.game = {} THEN Reply(r, NotFound(req))
               ELSE Reply(r, Json(req, 200, TheGame(del.game)))

----------------------------------------------------------------------------
(* Specifications *)

PathIds == ValidIds \cup {BadId}
BodyIds == {{}} \cup { {i} : i \in PathIds }
BodyDates == {{}, {ClientDate}}

Startup == ConnectOk \/ ConnectFail \/ Listen

Complete(r) ==
    \/ CompleteCreate(r)
    \/ CompleteList(r)
    \/ CompleteGet(r)
    \/ CompleteUpdate(r)
    \/ CompleteDelete(r)

\* One request at a time, with every body, _id and createdAt of the bounds.
Next ==
    \/ Startup
    \/ Tick
    \/ \E body \in CreateBodies, bodyId \in BodyIds, bodyCreatedAt \in BodyDates :
          StartCreate(1, body, bodyId, bodyCreatedAt)
    \/ StartList(1)
    \/ \E id \in PathIds : StartGet(1, id)
    \/ \E id \in PathIds, body \in UpdateBodies, bodyId \in BodyIds :
          StartUpdate(1, id, body, bodyId)
    \/ \E id \in PathIds : StartDelete(1, id)
    \/ Complete(1)

Spec == Init /\ [][Next]_vars

\* Up to MaxInFlight requests at a time, on well-formed ids.
NextConc ==
    \/ Startup
    \/ Tick
    \/ \E r \in 1 .. MaxInFlight :
          \/ \E body \in {Full("a"), Without("name")}, bodyId \in {{}, {1}} :
                StartCreate(r, body, bodyId, {})
          \/ StartList(r)
          \/ \E id \in ValidIds : StartGet(r, id)
          \/ \E id \in ValidIds, body \in {Only("name", "b"), Only("author", "")} :
                StartUpdate(r, id, body, {})
          \/ \E id \in ValidIds : StartDelete(r, id)
          \/ Complete(r)

SpecConc == Init /\ [][NextConc]_vars

----------------------------------------------------------------------------
(* Properties *)

\* Handler r sends its response in this step.
Done(r) == slot[r].op # "idle" /\ slot'[r].op = "idle"

\* The records of st with this id.
Stored(st, id) == { st[i] : i \in { j \in 1 .. Len(st) : st[j]._id = id } }

Range(seq) == { seq[i] : i \in 1 .. Len(seq) }

AbsentOrEmpty(body) == { f \in Fields : f \notin DOMAIN body \/ body[f] = "" }

EverStored == { i \in ValidIds : life[i] # "never" }
Retired == { i \in ValidIds : life[i] \in {"deleted", "reborn"} }
Live(i) == life[i] \in {"live", "reborn"}

\* C1: a Create whose body lacks one of the four required fields, or holds
\* the empty string for one, is answered with an error response carrying the
\* validation message, and leaves the stored records as they were.
C1_InvalidCreateFails ==
    [][\A r \in DOMAIN slot :
          (Done(r) /\ slot[r].op = "create" /\ AbsentOrEmpty(slot[r].body) # {})
          => /\ resp'.op = "create"
             /\ resp'.status = 500
             /\ resp'.out.message = "Game validation failed"
             /\ \A f \in AbsentOrEmpty(slot[r].body) :
                   RequiredMessage[f] \in resp'.out.detail
             /\ store' = store]_vars

\* An empty url (the other paths set) has been refused on a non-empty store.
C1_Witness ==
    /\ resp.op = "create"
    /\ resp.status = 500
    /\ resp.out.detail = {"enter the game url"}
    /\ store # <<>>

\* C2: a Create whose body holds a non-empty text for each of the four
\* required fields succeeds, adds exactly one record, and returns it with the
\* four fields of the body, an id, and createdAt equal to updatedAt.
C2_ValidCreateSucceeds ==
    [][\A r \in DOMAIN slot :
          (Done(r) /\ slot[r].op = "create" /\ AbsentOrEmpty(slot[r].body) = {})
          => /\ resp'.status = 200
             /\ \A f \in Fields : resp'.out[f] = slot[r].body[f]
             /\ resp'.out._id \in ValidIds
             /\ resp'.out.createdAt = resp'.out.updatedAt
             /\ store' = Append(store, resp'.out)]_vars

\* C3: GetById, UpdateById and DeleteById with an id no record has ever had
\* answer 404 with a message carrying the id, and leave the store unchanged.
C3_UnknownIdNotFound ==
    [][\A r \in DOMAIN slot :
          (Done(r) /\ slot[r].op \in {"get", "update", "delete"}
             /\ slot[r].id \notin EverStored)
          => /\ resp'.status = 404
             /\ resp'.out.id = slot[r].id
             /\ store' = store]_vars

\* C4 (as claimed): UpdateById on an existing record succeeds, sets the fields
\* of the body and updatedAt, keeps the id, createdAt and the other fields,
\* leaves every other record alone and returns the record as stored.
C4_UpdateSucceeds ==
    [][\A r \in DOMAIN slot :
          (Done(r) /\ slot[r].op = "update" /\ Stored(store, slot[r].id) # {})
          => LET req == slot[r]
                 old == CHOOSE d \in Stored(store, req.id) : TRUE
             IN /\ resp'.status = 200
                /\ \A f \in Fields :
                      resp'.out[f] = IF f \in DOMAIN req.body THEN req.body[f]
                                     ELSE old[f]
                /\ resp'.out._id = old._id
                /\ resp'.out.createdAt = old.createdAt
                /\ Len(store') = Len(store)
                /\ \A j \in 1 .. Len(store) :
                      store'[j] = IF store[j]._id = req.id THEN resp'.out
                                  ELSE store[j]]_vars

\* C4 (amended): UpdateById on an existing record, with a body whose _id is
\* absent or the record's own, succeeds without validating (an empty text is
\* stored), sets the fields of the body and updatedAt (to the handler's clock
\* reading), keeps the id, createdAt and the other fields, leaves every other
\* record alone and returns the record as stored. With any other _id in the
\* body it answers 500 and leaves the store unchanged.
C4_UpdateMerges ==
    [][\A r \in DOMAIN slot :
          (Done(r) /\ slot[r].op = "update" /\ Stored(store, slot[r].id) # {})
          => LET req == slot[r]
                 old == CHOOSE d \in Stored(store, req.id) : TRUE
             IN IF req.bodyId \subseteq {req.id}
                THEN /\ resp'.status = 200
                     /\ \A f \in Fields :
                           resp'.out[f] = IF f \in DOMAIN req.body
                                          THEN req.body[f] ELSE old[f]
                     /\ resp'.out._id = old._id
                     /\ resp'.out.createdAt = old.createdAt
                     /\ resp'.out.updatedAt = req.now
                     /\ Len(store') = Len(store)
                     /\ \A j \in 1 .. Len(store) :
                           store'[j] = IF store[j]._id = req.id THEN resp'.out
                                       ELSE store[j]
                ELSE /\ resp'.status = 500
                     /\ store' = store]_vars

\* One of two records has had its author blanked, later than its creation.
C4_Witness ==
    /\ resp.op = "update"
    /\ resp.status = 200
    /\ resp.out.author = ""
    /\ resp.out.name # ""
    /\ resp.out.updatedAt # resp.out.createdAt
    /\ Len(store) = 2

\* C5: DeleteById on an existing record returns it as stored and removes it;
\* from then on, whatever follows, GetById, UpdateById and DeleteById of that
\* id answer 404 and ListAll holds no record with that id.
C5_DeleteIsPermanent ==
    [][\A r \in DOMAIN slot :
          Done(r)
          => /\ (slot[r].op = "delete" /\ Stored(store, slot[r].id) # {})
                => /\ resp'.status = 200
                   /\ Stored(store, slot[r].id) = {resp'.out}
                   /\ Stored(store', slot[r].id) = {}
             /\ (slot[r].op \in {"get", "update", "delete"}
                   /\ slot[r].id \in Retired)
                => resp'.status = 404
             /\ slot[r].op = "list"
                => \A d \in Range(resp'.out) : d._id \notin Retired]_vars

\* C6: GetById leaves the store alone and returns the stored record as it
\* is; for a record created and not updated or deleted since, that is a
\* record with the four fields of the body it was created from.
C6_GetAfterCreate ==
    [][\A r \in DOMAIN slot :
          (Done(r) /\ slot[r].op = "get")
          => /\ store' = store
             /\ \A d \in Stored(store, slot[r].id) :
                   resp'.status = 200 /\ resp'.out = d
             /\ \A p \in pristine :
                   p.id = slot[r].id
                   => /\ resp'.status = 200
                      /\ resp'.out._id = p.id
                      /\ \A f \in Fields : resp'.out[f] = p.body[f]]_vars

\* The second of two records, as created, has been fetched.
C6_Witness ==
    /\ resp.op = "get"
    /\ resp.status = 200
    /\ Len(store) = 2
    /\ resp.out = store[2]
    /\ \E p \in pristine : p.id = resp.id

\* C7: ListAll answers 200 with exactly the records the earlier responses
\* reported created or updated and not deleted, each once, in their latest
\* state; with none, the empty sequence.
C7_ListAll ==
    resp.op = "list"
    => /\ resp.status = 200
       /\ Range(resp.out) = expected
       /\ Len(resp.out) = Cardinality(expected)

\* A list of one record after another was deleted.
C7_Witness ==
    /\ resp.op = "list"
    /\ Len(resp.out) = 1
    /\ \E i \in ValidIds : life[i] = "deleted"

\* C8: no two records share an id, no record has the id of an earlier,
\* deleted record, an update keeps the id, and updatedAt >= createdAt.
C8_IdsAndTimestamps ==
    /\ [](/\ \A i, j \in 1 .. Len(store) : store[i]._id = store[j]._id => i = j
          /\ \A d \in Range(store) : life[d._id] # "reborn"
          /\ \A d \in Range(store) : d.updatedAt >= d.createdAt)
    /\ [][\A r \in DOMAIN slot :
             (Done(r) /\ slot[r].op = "update")
             => /\ Len(store') = Len(store)
                /\ \A j \in 1 .. Len(store) : store'[j]._id = store[j]._id]_vars

\* C9: the server listens, and a request is started or answered, only once
\* the connect has succeeded; after a failed connect, never.
C9_ServesOnlyConnected ==
    (listening \/ handled > 0 \/ \E r \in DOMAIN slot : slot[r].op # "idle")
    => db = "connected"

\* A request has been answered.
C9_Witness ==
    /\ db = "connected"
    /\ listening
    /\ handled > 0

\* C10: with requests in flight together, a record is in the store exactly
\* when the responses so far say so (created and not deleted since), each
\* GetById, UpdateById and DeleteById answers 200 exactly when they say so and
\* 404 otherwise, and a request leaves the records of other ids alone.
C10_Serializable ==
    /\ [](\A i \in ValidIds : Stored(store, i) # {} <=> Live(i))
    /\ [][\A r \in DOMAIN slot :
             Done(r)
             => LET req == slot[r]
                    id == IF req.op = "create" THEN req.newId ELSE req.id
                IN /\ \A j \in ValidIds \ {id} :
                         Stored(store', j) = Stored(store, j)
                   /\ (req.op \in {"get", "update", "delete"}
                         /\ req.id \in ValidIds /\ req.bodyId = {})
                      => /\ resp'.status = IF Live(req.id) THEN 200 ELSE 404
                         /\ (req.op = "delete" /\ Live(req.id))
                            => Stored(store', req.id) = {}]_vars

\* A delete has returned the record while another delete of the same id,
\* started before, is still in flight.
C10_Witness ==
    /\ resp.op = "delete"
    /\ resp.status = 200
    /\ \E r \in DOMAIN slot : slot[r].op = "delete" /\ slot[r].id = resp.id

====
